---------------------------- MODULE Spec2Model ----------------------------
(***************************************************************************)
(* A model of the Intcode virtual machine of src/intcode.py: the Computer *)
(* object (memory, ptr, relative_base, the two streams, the run flags),    *)
(* its operators, and its public methods load_code, read_input,            *)
(* get_output, reset and run.  One run() invocation is a RunCall (or       *)
(* RunPatched) step followed by one Step per iteration of its while loop;  *)
(* the Computer is single-threaded, so no other method runs while          *)
(* pc = "run".                                                             *)
(*                                                                         *)
(* The last part models the tape of the byte-tape interpreter of           *)
(* src/brainfuck.py: Memory, InStream and the BrainfuckVM handlers of      *)
(* '>', '<', '+', '-' and ','.                                             *)
(***************************************************************************)
EXTENDS Integers, Sequences, FiniteSets, TLC

(***************************************************************************)
(* Bounds of the model.                                                    *)
(***************************************************************************)
\* instructions of the catalogue per generated program (a Halt is appended)
MaxInstr == 1
\* run() invocations per loaded program
MaxCalls == 4
\* read_input() calls per loaded program
MaxFeed == 2
\* load_code() calls, reset() calls
MaxLoads == 2
MaxResets == 1
\* run() invocations given a non-zero noun or verb
MaxPatches == 1
\* integers the model follows: stored values up to MaxVal in size, and
\* addresses, ptr and relative_base up to MaxAddr
MaxVal == 999999
MaxAddr == 101
\* values held by the output stream
MaxOut == 16
\* iterations of the while loop followed in one run() invocation
MaxSteps == 81
\* byte-tape interpreter: cells followed on each side of cell 0, and
\* characters given to load_input
MaxTape == 1
MaxChars == 2

Val == -MaxVal..MaxVal
Addr == -MaxAddr..MaxAddr

(***************************************************************************)
(* Program constants.                                                      *)
(***************************************************************************)
POSITIONAL_MODE == 0
IMMEDIATE_MODE == 1
RELATIVE_MODE == 2

\* OP_DICTIONARY's keys
KnownOps == {1, 2, 3, 4, 5, 6, 7, 8, 9, 99}

\* OP_LEN of each operator class
OpLen(opc) ==
    CASE opc \in {1, 2, 7, 8} -> 4
      [] opc \in {5, 6} -> 3
      [] opc \in {3, 4, 9} -> 2
      [] opc = 99 -> 1

(***************************************************************************)
(* Memory: a defaultdict(int).  DOMAIN m is the set of keys it holds; a    *)
(* read of an absent key yields 0 and inserts the key.                     *)
(***************************************************************************)
Rd(m, a) == IF a \in DOMAIN m THEN m[a] ELSE 0

Touch(m, a) == [x \in DOMAIN m \cup {a} |-> IF x \in DOMAIN m THEN m[x] ELSE 0]

TouchAll(m, S) == [x \in DOMAIN m \cup S |-> IF x \in DOMAIN m THEN m[x] ELSE 0]

Wr(m, a, v) == [x \in DOMAIN m \cup {a} |-> IF x = a THEN v ELSE m[x]]

EmptyMemory == [x \in {} |-> 0]

\* two memories hold the same value at every address
SameMem(m1, m2) == \A a \in DOMAIN m1 \cup DOMAIN m2 : Rd(m1, a) = Rd(m2, a)

(***************************************************************************)
(* Instruction decoding (Operator.__init__, Operator.get_modes).           *)
(***************************************************************************)
\* str(n) for n >= 0, as the sequence of its decimal digits
RECURSIVE DecDigits(_)
DecDigits(n) == IF n < 10 THEN <<n>> ELSE Append(DecDigits(n \div 10), n % 10)

\* s.zfill(width) on a string of digits
RECURSIVE ZFill(_, _)
ZFill(s, width) == IF Len(s) >= width THEN s ELSE ZFill(<<0>> \o s, width)

\* s[::-1]
Reverse(s) == [i \in 1..Len(s) |-> s[Len(s) + 1 - i]]

\* get_modes on a non-negative word: list(map(int, str(w).zfill(5)[:-2]))[::-1]
GetModes(w) ==
    LET full_opcode == ZFill(DecDigits(w), 5)
    IN  Reverse(SubSeq(full_opcode, 1, Len(full_opcode) - 2))

\* str(w) of a negative word starts with "-", which int() rejects
GetModesRaises(w) == w < 0

\* self.args of the operator built at c.ptr
ArgsOf(c, opc) == [i \in 1..(OpLen(opc) - 1) |-> Rd(c.memory, c.ptr + i)]

\* python's modes[i] and args[i] (0-based)
At(s, i) == s[i + 1]


(***************************************************************************)
(* Operand resolution (Operator.get_param, Operator.write).  c is the      *)
(* Computer as a record of its fields.                                     *)
(***************************************************************************)
\* the address operand i resolves to in positional and relative mode
Target(c, args, modes, i) ==
    IF At(modes, i) = RELATIVE_MODE
    THEN At(args, i) + c.relative_base
    ELSE At(args, i)

\* a faulty get_param: relative mode reads args[i], without relative_base
GetParamNoBase(c, args, modes, i) ==
    CASE At(modes, i) = POSITIONAL_MODE -> Rd(c.memory, At(args, i))
      [] At(modes, i) = IMMEDIATE_MODE -> At(args, i)
      [] At(modes, i) = RELATIVE_MODE -> Rd(c.memory, At(args, i))

\* the value get_param(i) returns
GetParam(c, args, modes, i) ==
    CASE At(modes, i) = POSITIONAL_MODE -> Rd(c.memory, At(args, i))
      [] At(modes, i) = IMMEDIATE_MODE -> At(args, i)
      [] At(modes, i) = RELATIVE_MODE -> Rd(c.memory, At(args, i) + c.relative_base)

\* the Computer after get_param(i): the defaultdict holds the key it read
AfterGetParam(c, args, modes, i) ==
    IF At(modes, i) = IMMEDIATE_MODE
    THEN c
    ELSE [c EXCEPT !.memory = Touch(@, Target(c, args, modes, i))]

\* the mode write() looks at: modes[0] for Input, modes[-1] for the others
WriteMode(opc, modes) == IF opc = 3 THEN At(modes, 0) ELSE modes[Len(modes)]

\* write(val): the Computer after it and the exception it raises, if any
Write(c, opc, args, modes, val) ==
    LET mode == WriteMode(opc, modes)
        target == args[Len(args)]
    IN  CASE mode = POSITIONAL_MODE ->
               [c |-> [c EXCEPT !.memory = Wr(@, target, val)], sig |-> "none"]
          [] mode = IMMEDIATE_MODE ->
               [c |-> c, sig |-> "ValueError"]
          [] mode = RELATIVE_MODE ->
               [c |-> [c EXCEPT !.memory = Wr(@, target + c.relative_base, val)],
                sig |-> "none"]
          [] OTHER ->
               [c |-> c, sig |-> "none"]

(***************************************************************************)
(* The streams.                                                            *)
(***************************************************************************)
\* a faulty InStream.get: an empty buffer yields 0 instead of raising
InStreamGetDefault(buffer) ==
    IF buffer # <<>>
    THEN [val |-> Head(buffer), buffer |-> Tail(buffer), sig |-> "none"]
    ELSE [val |-> 0, buffer |-> buffer, sig |-> "none"]

\* InStream.get: popleft, or RuntimeError on an empty buffer
InStreamGet(buffer) ==
    IF buffer # <<>>
    THEN [val |-> Head(buffer), buffer |-> Tail(buffer), sig |-> "none"]
    ELSE [val |-> 0, buffer |-> buffer, sig |-> "RuntimeError"]

\* InStream.add
InStreamAdd(buffer, inp) == Append(buffer, inp)

\* OutStream.put
OutStreamPut(buffer, val) == Append(buffer, val)

\* OutStream.get: list.pop() takes the last element; RuntimeError when empty
OutStreamGet(buffer) ==
    IF buffer # <<>>
    THEN [val |-> buffer[Len(buffer)], buffer |-> SubSeq(buffer, 1, Len(buffer) - 1),
          sig |-> "none"]
    ELSE [val |-> 0, buffer |-> buffer, sig |-> "RuntimeError"]

(***************************************************************************)
(* The operators' execute methods.  Each yields the Computer after it and  *)
(* the exception it raises ("none" when it returns).                       *)
(***************************************************************************)
\* a faulty calculate: OperatorMul adds as OperatorAdd does
CalculateAdds(opc, a, b) == a + b

\* OperatorAdd.calculate, OperatorMul.calculate
Calculate(opc, a, b) == IF opc = 1 THEN a + b ELSE a * b

MathExecute(c, opc, args, modes) ==
    LET a == GetParam(c, args, modes, 0)
        c1 == AfterGetParam(c, args, modes, 0)
        b == GetParam(c1, args, modes, 1)
        c2 == AfterGetParam(c1, args, modes, 1)
    IN  Write(c2, opc, args, modes, Calculate(opc, a, b))

InpExecute(c, opc, args, modes) ==
    LET g == InStreamGet(c.input)
    IN  IF g.sig # "none"
        THEN [c |-> c, sig |-> g.sig]
        ELSE Write([c EXCEPT !.input = g.buffer], opc, args, modes, g.val)

OutExecute(c, opc, args, modes) ==
    LET val == GetParam(c, args, modes, 0)
        c1 == AfterGetParam(c, args, modes, 0)
    IN  [c |-> [c1 EXCEPT !.output = OutStreamPut(@, val),
                          !.last_operation_output = TRUE],
         sig |-> "none"]

\* a faulty jump: the target is stored but last_operation_jump is not set
JumpExecuteNoFlag(c, opc, args, modes) ==
    LET a == GetParam(c, args, modes, 0)
        c1 == AfterGetParam(c, args, modes, 0)
    IN  IF (IF opc = 5 THEN a # 0 ELSE a = 0)
        THEN [c |-> [AfterGetParam(c1, args, modes, 1) EXCEPT
                        !.ptr = GetParam(c1, args, modes, 1)],
              sig |-> "none"]
        ELSE [c |-> c1, sig |-> "none"]

\* OperatorJIT (opcode 5) jumps on a non-zero operand, OperatorJIF (6) on zero
JumpTaken(opc, a) == IF opc = 5 THEN a # 0 ELSE a = 0

JumpExecute(c, opc, args, modes) ==
    LET a == GetParam(c, args, modes, 0)
        c1 == AfterGetParam(c, args, modes, 0)
    IN  IF JumpTaken(opc, a)
        THEN [c |-> [AfterGetParam(c1, args, modes, 1) EXCEPT
                        !.ptr = GetParam(c1, args, modes, 1),
                        !.last_operation_jump = TRUE],
              sig |-> "none"]
        ELSE [c |-> c1, sig |-> "none"]

\* OperatorComp (opcode 7) writes a < b, OperatorEquals (8) writes a = b
CompareExecute(c, opc, args, modes) ==
    LET a == GetParam(c, args, modes, 0)
        c1 == AfterGetParam(c, args, modes, 0)
        b == GetParam(c1, args, modes, 1)
        c2 == AfterGetParam(c1, args, modes, 1)
        holds == IF opc = 7 THEN a < b ELSE a = b
    IN  Write(c2, opc, args, modes, IF holds THEN 1 ELSE 0)

ChangeRelativeBaseExecute(c, opc, args, modes) ==
    LET val == GetParam(c, args, modes, 0)
        c1 == AfterGetParam(c, args, modes, 0)
    IN  [c |-> [c1 EXCEPT !.relative_base = @ + val], sig |-> "none"]

\* a faulty Halt: ptr moves past the instruction before StopIteration
EOFExecuteAdvances(c, opc, args, modes) ==
    [c |-> [c EXCEPT !.ptr = @ + 1], sig |-> "StopIteration"]

EOFExecute(c, opc, args, modes) == [c |-> c, sig |-> "StopIteration"]

Execute(c, opc, args, modes) ==
    CASE opc \in {1, 2} -> MathExecute(c, opc, args, modes)
      [] opc = 3 -> InpExecute(c, opc, args, modes)
      [] opc = 4 -> OutExecute(c, opc, args, modes)
      [] opc \in {5, 6} -> JumpExecute(c, opc, args, modes)
      [] opc \in {7, 8} -> CompareExecute(c, opc, args, modes)
      [] opc = 9 -> ChangeRelativeBaseExecute(c, opc, args, modes)
      [] opc = 99 -> EOFExecute(c, opc, args, modes)

(***************************************************************************)
(* Computer.run: one iteration of its while loop.                          *)
(***************************************************************************)
Errors == {"KeyError", "ValueError", "RuntimeError"}

\* Computer.advance
Advance(c, opc) == [c EXCEPT !.ptr = @ + OpLen(opc)]

\* a faulty pause check: the jump flag is tested instead of the output flag
PauseBreakOnJump(c, pause_arg) == pause_arg /\ c.last_operation_jump

\* "if pause_at_output and self.last_operation_output: break"
PauseBreak(c, pause_arg) == pause_arg /\ c.last_operation_output

\* a faulty dictionary lookup: a word without an operator ends the run as
\* Halt does
UnknownOpHalts(c) == [c |-> [c EXCEPT !.running = FALSE], ret |-> "halted"]

\* OP_DICTIONARY[opcode] of _get_current_op on a word without an operator:
\* KeyError leaves run()
UnknownOp(c) == [c |-> c, ret |-> "KeyError"]

\* a faulty handler: StopIteration ends the loop with running left True
OnStopIterationBreaks(c) == c

\* "except StopIteration: self.running = False"
OnStopIteration(c) == [c EXCEPT !.running = FALSE]

\* ret: "cont" (the loop goes on), "paused" (break), "halted" (StopIteration
\* caught, running False), or the exception that leaves run()
Iteration(c, pause_arg) ==
    LET w == Rd(c.memory, c.ptr)
        opcode == w % 100
        c1 == [c EXCEPT !.memory = Touch(@, c.ptr)]
    IN  IF opcode \notin KnownOps
        THEN UnknownOp(c1)
        ELSE
          LET args == ArgsOf(c1, opcode)
              c2 == [c1 EXCEPT !.memory =
                        TouchAll(@, {c.ptr + i : i \in 1..(OpLen(opcode) - 1)})]
          IN  IF GetModesRaises(w)
              THEN [c |-> c2, ret |-> "ValueError"]
              ELSE
                LET modes == GetModes(w)
                    c3 == [c2 EXCEPT !.last_operation_jump = FALSE,
                                     !.last_operation_output = FALSE]
                    e == Execute(c3, opcode, args, modes)
                IN  CASE e.sig = "StopIteration" ->
                           [c |-> OnStopIteration(e.c), ret |-> "halted"]
                      [] e.sig \in Errors ->
                           [c |-> e.c, ret |-> e.sig]
                      [] OTHER ->
                           LET c4 == IF e.c.last_operation_jump
                                     THEN e.c
                                     ELSE Advance(e.c, opcode)
                           IN  [c |-> c4,
                                ret |-> IF PauseBreak(c4, pause_arg)
                                        THEN "paused"
                                        ELSE "cont"]

\* a faulty run() entry: every invocation starts from relative_base 0
RunEntryResetsBase(c, noun, verb) ==
    LET m1 == IF noun # 0 THEN Wr(c.memory, 1, noun) ELSE c.memory
        m2 == IF verb # 0 THEN Wr(m1, 2, verb) ELSE m1
    IN  [c EXCEPT !.memory = m2, !.running = TRUE, !.relative_base = 0]

\* a faulty run() entry: noun and verb are stored whatever their value
RunEntryPatchesZero(c, noun, verb) ==
    [c EXCEPT !.memory = Wr(Wr(c.memory, 1, noun), 2, verb), !.running = TRUE]

\* run()'s entry: the noun/verb patch and running = True
RunEntry(c, noun, verb) ==
    LET m1 == IF noun # 0 THEN Wr(c.memory, 1, noun) ELSE c.memory
        m2 == IF verb # 0 THEN Wr(m1, 2, verb) ELSE m1
    IN  [c EXCEPT !.memory = m2, !.running = TRUE]

\* a load_code that also rewinds ptr and relative_base (the code's does not)
LoadCodeRewinds(c, prog) ==
    [c EXCEPT !.memory =
        [x \in DOMAIN c.memory \cup {i - 1 : i \in 1..Len(prog)} |->
            IF x \in 0..(Len(prog) - 1) THEN prog[x + 1] ELSE c.memory[x]],
              !.ptr = 0, !.relative_base = 0]

\* Computer.load_code
LoadCodeOf(c, prog) ==
    [c EXCEPT !.memory =
        [x \in DOMAIN c.memory \cup {i - 1 : i \in 1..Len(prog)} |->
            IF x \in 0..(Len(prog) - 1) THEN prog[x + 1] ELSE c.memory[x]]]

\* Computer.reset (it does not touch last_operation_output)
ResetOf(c) ==
    [c EXCEPT !.memory = EmptyMemory, !.ptr = 0, !.relative_base = 0,
              !.last_operation_jump = FALSE, !.input = <<>>, !.output = <<>>,
              !.running = FALSE, !.pause_at_output = FALSE]

\* Computer.__init__; last_operation_output is set by run() only
NewComputer ==
    [memory |-> EmptyMemory, ptr |-> 0, relative_base |-> 0,
     last_operation_jump |-> FALSE, last_operation_output |-> FALSE,
     input |-> <<>>, output |-> <<>>, running |-> FALSE,
     pause_at_output |-> FALSE]

(***************************************************************************)
(* What the model follows: instruction words whose read operands have a    *)
(* mode digit of 0, 1 or 2 (get_param returns None for any other), and     *)
(* integers within Val, addresses within Addr.                             *)
(***************************************************************************)
\* the word at ptr selects an operator and get_modes accepts it
Decodes(c) == Rd(c.memory, c.ptr) % 100 \in KnownOps /\ Rd(c.memory, c.ptr) >= 0

\* the operands (0-based) the operator at ptr passes to get_param
ReadOperands(c) ==
    LET w == Rd(c.memory, c.ptr)
        opc == w % 100
        args == ArgsOf(c, opc)
        modes == GetModes(w)
    IN  CASE opc \in {1, 2, 7, 8} -> {0, 1}
          [] opc \in {4, 9} -> {0}
          [] opc \in {5, 6} ->
               IF At(modes, 0) \in 0..2 /\ JumpTaken(opc, GetParam(c, args, modes, 0))
               THEN {0, 1}
               ELSE {0}
          [] OTHER -> {}

Modelled(c) ==
    Decodes(c) =>
        \A i \in ReadOperands(c) : At(GetModes(Rd(c.memory, c.ptr)), i) \in 0..2

InBounds(c) ==
    /\ c.ptr \in Addr
    /\ c.relative_base \in Addr
    /\ DOMAIN c.memory \subseteq Addr
    /\ \A a \in DOMAIN c.memory : c.memory[a] \in Val
    /\ Len(c.output) <= MaxOut
    /\ \A i \in 1..Len(c.output) : c.output[i] \in Val

(***************************************************************************)
(* The programs and inputs the model draws from.                           *)
(***************************************************************************)
Instrs ==
    { <<104, 7>>,              \* output, immediate
      <<4, 1>>,                \* output, positional
      <<204, -1>>,             \* output, relative
      <<109, 2>>,              \* relative_base += 2
      <<3, 1>>,                \* input to address 1
      <<103, 1>>,              \* input, immediate write operand
      <<1101, 3, 4, 1>>,       \* add, immediate operands
      <<11102, 2, 3, 1>>,      \* multiply, immediate write operand
      <<210001, 1, 1, 1>>,     \* add, six-digit word
      <<21101, 1, 1, -3>>,     \* add, relative write operand
      <<1105, 1, 0>>,          \* jump if true
      <<55>> }                 \* no operator

RECURSIVE Bodies(_)
Bodies(n) ==
    IF n = 0
    THEN {<<>>}
    ELSE Bodies(n - 1) \cup {b \o i : b \in Bodies(n - 1), i \in Instrs}

\* the program that puts out a copy of itself
Quine == <<109, 1, 204, -1, 1001, 100, 1, 100, 1008, 100, 16, 101, 1006, 101, 0, 99>>

\* programs of the specification's test cases
Examples ==
    { <<104, 11, 104, 22, 104, 33, 99>>,
      <<1002, 4, 3, 4, 33>>,
      <<1101, 5, 5, 0, 99>>,
      <<109, 2, 3, 1, 104, 7, 204, -1, 99>>,
      <<100001, 1, 1, 5, 99>>,
      <<-1>>,
      \* relative_base below zero, and an add that overwrites its own operand
      <<109, -2, 21101, 3, 4, 5, 204, 5, 99>>,
      \* add then multiply, positional and relative operands
      <<1, 9, 10, 11, 22002, 11, 9, 12, 99, 3, 4>>,
      \* both jumps, taken and not, less-than and equals
      <<1106, 0, 4, 55, 1105, 0, 0, 1107, 1, 2, 0, 1108, 1, 2, 0, 99>>,
      \* no Halt: the run goes on into memory never written
      <<104, 7>> }

Programs == {b \o <<99>> : b \in Bodies(MaxInstr)} \cup Examples

\* programs loaded one after the other into the same Computer
Reloads == { <<104, 8, 99>>, <<3, 1, 99>>, <<103, 1, 99>>, <<109, 2, 204, -1, 99>> }

FeedVals == {5, 6}
Nouns == {0, 12}
Verbs == {0, 2}

(***************************************************************************)
(* The byte-tape interpreter (src/brainfuck.py).  A Memory is a record of  *)
(* its fields; registers is a defaultdict(int) as the Computer's memory    *)
(* is.  A character is named by a string and ord() is a table.             *)
(***************************************************************************)
\* BrainfuckVM.__init__'s default for bits
DefaultBits == 8

\* cell_size_bits the BrainfuckVM is built with
Bits == {1, 2}

\* characters given to load_input: U+0001 and "A"
Chars == {"SOH", "A"}

\* ord(inp)
Ord(ch) == CASE ch = "SOH" -> 1 [] ch = "A" -> 65

\* the strings given to load_input
Strings == {<<ch>> : ch \in Chars}

\* 2 ** cell_size_bits
RECURSIVE Pow2(_)
Pow2(n) == IF n = 0 THEN 1 ELSE 2 * Pow2(n - 1)

\* Memory.__init__
NewMemory(cell_size_bits) ==
    [registers |-> EmptyMemory, cell_size |-> Pow2(cell_size_bits), data_ptr |-> 0]

\* Memory.move
MemoryMove(m, n) == [m EXCEPT !.data_ptr = @ + n]

\* Memory.increment
MemoryIncrement(m) ==
    [m EXCEPT !.registers =
        Wr(@, m.data_ptr, (Rd(m.registers, m.data_ptr) + 1) % m.cell_size)]

\* Memory.decrement
MemoryDecrement(m) ==
    [m EXCEPT !.registers =
        Wr(@, m.data_ptr, (Rd(m.registers, m.data_ptr) - 1) % m.cell_size)]

\* Memory.store
MemoryStore(m, inp) == [m EXCEPT !.registers = Wr(@, m.data_ptr, Ord(inp))]

\* InStream.add of the byte-tape interpreter: one entry per character
TapeInStreamAdd(buffer, inp) == buffer \o inp

\* InStream.get of the byte-tape interpreter: popleft, or None when empty
TapeInStreamGet(buffer) ==
    IF buffer # <<>>
    THEN [val |-> Head(buffer), buffer |-> Tail(buffer)]
    ELSE [val |-> "None", buffer |-> buffer]

\* BrainfuckVM.__input_value: "if value: self.memory.store(value)"
InputValueOf(m, buffer) ==
    LET g == TapeInStreamGet(buffer)
    IN  [memory |-> IF g.val # "None" THEN MemoryStore(m, g.val) ELSE m,
         buffer |-> g.buffer]

(***************************************************************************)
(* State.                                                                  *)
(***************************************************************************)
VARIABLES
    memory, ptr, relative_base, last_operation_jump, last_operation_output,
    input, output, running, pause_at_output,
    \* the caller: "idle" between calls, "run" inside run()'s loop
    pc,
    \* the pause_at_output argument of the run() in progress or last made
    pause_arg,
    \* how the last run() ended: "none" (no run yet, or one in progress),
    \* "paused", "halted", or the exception it raised
    ret,
    \* the program last loaded, and counts of the calls made
    code, loads, resets, feeds, calls, patches,
    \* iterations the run() in progress (or the last one) has made
    steps,
    \* history of the calls, for the properties below
    h,
    \* the BrainfuckVM: its Memory's fields and its in_stream's buffer
    registers, cell_size, data_ptr, in_stream,
    \* the opcode its last handler was called for, and the characters loaded
    last_op, chars

computer ==
    <<memory, ptr, relative_base, last_operation_jump, last_operation_output,
      input, output, running, pause_at_output>>

\* the Computer and its caller
intcode == <<computer, pc, pause_arg, ret, code, loads, resets, feeds, calls, patches,
             steps, h>>

\* the BrainfuckVM and its caller
tape == <<registers, cell_size, data_ptr, in_stream, last_op, chars>>

vars == <<intcode, tape>>

Self ==
    [memory |-> memory, ptr |-> ptr, relative_base |-> relative_base,
     last_operation_jump |-> last_operation_jump,
     last_operation_output |-> last_operation_output,
     input |-> input, output |-> output, running |-> running,
     pause_at_output |-> pause_at_output]

Becomes(c) ==
    /\ memory' = c.memory
    /\ ptr' = c.ptr
    /\ relative_base' = c.relative_base
    /\ last_operation_jump' = c.last_operation_jump
    /\ last_operation_output' = c.last_operation_output
    /\ input' = c.input
    /\ output' = c.output
    /\ running' = c.running
    /\ pause_at_output' = c.pause_at_output

\* history since the last load_code or reset
NoHistory ==
    [ \* run() invocations made, and how many of them ended in Halt
      runs |-> 0, halts |-> 0,
      \* every invocation so far had pause_at_output = True, noun = verb = 0
      plain |-> TRUE,
      \* some invocation raised
      faulted |-> FALSE,
      \* the values the invocation in progress (or the last one) put out
      callout |-> <<>>,
      \* the Computer when the first invocation was made
      start |-> NewComputer,
      \* read_input or get_output was called after the first invocation
      fedlate |-> FALSE, gotlate |-> FALSE,
      \* every value put out, and every value get_output returned
      produced |-> <<>>, got |-> <<>>,
      \* every value read_input was given, and the value each Input
      \* instruction that returned left at its destination
      fed |-> <<>>, stored |-> <<>>,
      \* noun and verb of the last invocation
      noun |-> 0, verb |-> 0 ]

\* BrainfuckVM(bits=cell_size_bits)
InitVM(cell_size_bits) ==
    /\ registers = NewMemory(cell_size_bits).registers
    /\ cell_size = NewMemory(cell_size_bits).cell_size
    /\ data_ptr = NewMemory(cell_size_bits).data_ptr
    /\ in_stream = <<>>
    /\ last_op = "none"
    /\ chars = 0

Init ==
    /\ InitVM(DefaultBits)
    /\ memory = NewComputer.memory
    /\ ptr = NewComputer.ptr
    /\ relative_base = NewComputer.relative_base
    /\ last_operation_jump = NewComputer.last_operation_jump
    /\ last_operation_output = NewComputer.last_operation_output
    /\ input = NewComputer.input
    /\ output = NewComputer.output
    /\ running = NewComputer.running
    /\ pause_at_output = NewComputer.pause_at_output
    /\ pc = "idle"
    /\ pause_arg = FALSE
    /\ ret = "none"
    /\ code = <<>>
    /\ loads = 0 /\ resets = 0 /\ feeds = 0 /\ calls = 0 /\ patches = 0
    /\ steps = 0
    /\ h = NoHistory

(***************************************************************************)
(* The caller's calls.                                                     *)
(***************************************************************************)
\* computer.load_code(prog)
Load(prog) ==
    /\ pc = "idle"
    /\ Becomes(LoadCodeOf(Self, prog))
    /\ code' = prog
    /\ loads' = loads + 1
    /\ h' = [NoHistory EXCEPT !.produced = h.produced, !.got = h.got,
                              !.fed = h.fed, !.stored = h.stored]
    /\ UNCHANGED <<pc, pause_arg, ret, resets, feeds, calls, patches, steps, tape>>

\* the first load_code of a Computer
LoadCode ==
    /\ loads = 0
    /\ \E prog \in Programs : Load(prog)

\* the first load_code of a Computer, of one of the test-case programs
LoadExample ==
    /\ loads = 0
    /\ \E prog \in Examples : Load(prog)

\* load_code of the self-describing program into a new Computer
LoadQuine ==
    /\ loads = 0
    /\ Load(Quine)

\* load_code at any time, over whatever the Computer holds
Reload ==
    /\ loads < MaxLoads
    /\ \E prog \in Reloads : Load(prog)

\* computer.read_input(val)
ReadInput ==
    /\ pc = "idle"
    /\ feeds < MaxFeed
    /\ \E val \in FeedVals :
          /\ Becomes([Self EXCEPT !.input = InStreamAdd(@, val)])
          /\ h' = [h EXCEPT !.fedlate = @ \/ h.runs > 0, !.fed = Append(@, val)]
    /\ feeds' = feeds + 1
    /\ UNCHANGED <<pc, pause_arg, ret, code, loads, resets, calls, patches, steps, tape>>

\* computer.get_output(); on an empty stream it raises and changes nothing
GetOutput ==
    /\ pc = "idle"
    /\ LET g == OutStreamGet(output)
       IN  /\ Becomes([Self EXCEPT !.output = g.buffer])
           /\ h' = IF g.sig = "none"
                   THEN [h EXCEPT !.got = Append(@, g.val),
                                  !.gotlate = @ \/ h.runs > 0]
                   ELSE h
    /\ UNCHANGED <<pc, pause_arg, ret, code, loads, resets, feeds, calls, patches, steps, tape>>

\* computer.reset()
Reset ==
    /\ pc = "idle"
    /\ resets < MaxResets
    /\ Becomes(ResetOf(Self))
    /\ resets' = resets + 1
    /\ ret' = "none"
    /\ code' = <<>>
    /\ h' = NoHistory
    /\ UNCHANGED <<pc, pause_arg, loads, feeds, calls, patches, steps, tape>>

\* computer.run(noun, verb, pause_at_output=p): up to the while loop
Run(noun, verb, p) ==
    /\ pc = "idle"
    /\ calls < MaxCalls
    /\ Becomes(RunEntry(Self, noun, verb))
    /\ pause_arg' = p
    /\ h' = [h EXCEPT !.runs = @ + 1,
                      !.plain = @ /\ p /\ noun = 0 /\ verb = 0,
                      !.callout = <<>>,
                      !.noun = noun, !.verb = verb,
                      !.start = IF h.runs = 0 THEN Self ELSE @]
    /\ calls' = calls + 1
    /\ pc' = "run"
    /\ ret' = "none"
    /\ steps' = 0
    /\ UNCHANGED <<code, loads, resets, feeds, tape>>

\* run() with the default noun and verb
RunCall ==
    /\ \E p \in BOOLEAN : Run(0, 0, p)
    /\ UNCHANGED patches

\* run() with a noun or a verb
RunPatched ==
    /\ patches < MaxPatches
    /\ \E noun \in Nouns, verb \in Verbs, p \in BOOLEAN :
          /\ noun # 0 \/ verb # 0
          /\ Run(noun, verb, p)
    /\ patches' = patches + 1

\* one iteration of run()'s while loop, and what ends the loop
Step ==
    /\ pc = "run"
    /\ steps < MaxSteps
    /\ Modelled(Self)
    /\ LET r == Iteration(Self, pause_arg)
           put == SubSeq(r.c.output, Len(output) + 1, Len(r.c.output))
           w == Rd(memory, ptr)
           \* the destination of an Input instruction at ptr
           dest == Rd(memory, ptr + 1) +
                      (IF (w \div 100) % 10 = RELATIVE_MODE THEN relative_base ELSE 0)
           inp == w >= 0 /\ w % 100 = 3 /\ r.ret \notin Errors
       IN  /\ InBounds(r.c)
           /\ Becomes(r.c)
           /\ pc' = IF r.ret = "cont" THEN "run" ELSE "idle"
           /\ ret' = IF r.ret = "cont" THEN "none" ELSE r.ret
           /\ h' = [h EXCEPT !.callout = @ \o put,
                             !.produced = @ \o put,
                             !.stored = IF inp
                                        THEN Append(@, Rd(r.c.memory, dest))
                                        ELSE @,
                             !.halts = IF r.ret = "halted" THEN @ + 1 ELSE @,
                             !.faulted = @ \/ r.ret \in Errors]
    /\ steps' = steps + 1
    /\ UNCHANGED <<pause_arg, code, loads, resets, feeds, calls, patches, tape>>

(***************************************************************************)
(* Spec: one program per Computer, run with the default noun and verb.     *)
(* SpecReload: the Computer is reset and loaded several times.              *)
(***************************************************************************)
Next == LoadCode \/ ReadInput \/ GetOutput \/ RunCall \/ Step

Spec == Init /\ [][Next]_vars

NextReload == Reload \/ Reset \/ ReadInput \/ GetOutput \/ RunCall \/ Step

SpecReload == Init /\ [][NextReload]_vars

\* SpecQuine: the self-describing program, run with no input.
NextQuine == LoadQuine \/ GetOutput \/ RunCall \/ Step

SpecQuine == Init /\ [][NextQuine]_vars

\* SpecPatch: run() is also given a noun and a verb.
NextPatch == LoadExample \/ ReadInput \/ GetOutput \/ RunCall \/ RunPatched \/ Step

SpecPatch == Init /\ [][NextPatch]_vars

(***************************************************************************)
(* SpecTape: the byte-tape interpreter, built with a cell size of 2^bits,  *)
(* given input and the opcodes '>', '<', '+', '-' and ',' in any order.    *)
(***************************************************************************)
Tape == [registers |-> registers, cell_size |-> cell_size, data_ptr |-> data_ptr]

TapeBecomes(m) ==
    /\ registers' = m.registers
    /\ cell_size' = m.cell_size
    /\ data_ptr' = m.data_ptr

\* vm.load_input(inp)
LoadInput ==
    /\ chars < MaxChars
    /\ \E inp \in Strings :
          /\ in_stream' = TapeInStreamAdd(in_stream, inp)
          /\ chars' = chars + Len(inp)
    /\ UNCHANGED <<registers, cell_size, data_ptr, last_op, intcode>>

\* '>': BrainfuckVM.__increment_data_ptr
IncrementDataPtr ==
    /\ data_ptr < MaxTape
    /\ TapeBecomes(MemoryMove(Tape, 1))
    /\ last_op' = ">"
    /\ UNCHANGED <<in_stream, chars, intcode>>

\* '<': BrainfuckVM.__decrement_data_ptr
DecrementDataPtr ==
    /\ data_ptr > -MaxTape
    /\ TapeBecomes(MemoryMove(Tape, -1))
    /\ last_op' = "<"
    /\ UNCHANGED <<in_stream, chars, intcode>>

\* '+': BrainfuckVM.__increment_value
IncrementValue ==
    /\ TapeBecomes(MemoryIncrement(Tape))
    /\ last_op' = "+"
    /\ UNCHANGED <<in_stream, chars, intcode>>

\* '-': BrainfuckVM.__decrement_value
DecrementValue ==
    /\ TapeBecomes(MemoryDecrement(Tape))
    /\ last_op' = "-"
    /\ UNCHANGED <<in_stream, chars, intcode>>

\* ',': BrainfuckVM.__input_value
InputValue ==
    /\ LET r == InputValueOf(Tape, in_stream)
       IN  /\ TapeBecomes(r.memory)
           /\ in_stream' = r.buffer
    /\ last_op' = ","
    /\ UNCHANGED <<chars, intcode>>

InitTape ==
    /\ \E cell_size_bits \in Bits : InitVM(cell_size_bits)
    /\ memory = NewComputer.memory
    /\ ptr = NewComputer.ptr
    /\ relative_base = NewComputer.relative_base
    /\ last_operation_jump = NewComputer.last_operation_jump
    /\ last_operation_output = NewComputer.last_operation_output
    /\ input = NewComputer.input
    /\ output = NewComputer.output
    /\ running = NewComputer.running
    /\ pause_at_output = NewComputer.pause_at_output
    /\ pc = "idle"
    /\ pause_arg = FALSE
    /\ ret = "none"
    /\ code = <<>>
    /\ loads = 0 /\ resets = 0 /\ feeds = 0 /\ calls = 0 /\ patches = 0
    /\ steps = 0
    /\ h = NoHistory

NextTape ==
    \/ LoadInput
    \/ IncrementDataPtr
    \/ DecrementDataPtr
    \/ IncrementValue
    \/ DecrementValue
    \/ InputValue

SpecTape == InitTape /\ [][NextTape]_vars

(***************************************************************************)
(* A whole run() invocation as a function of the Computer it is called on: *)
(* the entry, then iterations until the loop ends.  ret is "fuel" when     *)
(* more than fuel iterations are needed and "unmodelled" when an operand   *)
(* mode outside 0..2 is read.                                              *)
(***************************************************************************)
RECURSIVE RunLoop(_, _, _)
RunLoop(c, p, fuel) ==
    IF fuel = 0
    THEN [c |-> c, ret |-> "fuel"]
    ELSE IF ~Modelled(c)
    THEN [c |-> c, ret |-> "unmodelled"]
    ELSE LET r == Iteration(c, p)
         IN  IF r.ret = "cont" THEN RunLoop(r.c, p, fuel - 1) ELSE r

RunInvocation(c, noun, verb, p, fuel) == RunLoop(RunEntry(c, noun, verb), p, fuel)

(***************************************************************************)
(* Properties.                                                             *)
(***************************************************************************)
\* the instruction word at ptr, its opcode, and its decimal mode digit i
Word == Rd(memory, ptr)

CurOp == Word % 100

RECURSIVE Pow10(_)
Pow10(i) == IF i = 0 THEN 1 ELSE 10 * Pow10(i - 1)

ModeDigit(w, i) == ((w \div 100) \div Pow10(i)) % 10

\* opcodes that write, and the operand that names the destination
WriteOps == {1, 2, 3, 7, 8}

DestOperand(opc) == IF opc = 3 THEN 0 ELSE 2

\* a program of k Output instructions followed by Halt
OutputsThenHalt(prog) ==
    /\ Len(prog) % 2 = 1
    /\ prog[Len(prog)] = 99
    /\ \A i \in 1..(Len(prog) \div 2) : prog[2 * i - 1] \in {4, 104, 204}

\* the machine state (not the flags) of two Computers agrees
SameMachine(c, d) ==
    /\ SameMem(c.memory, d.memory)
    /\ c.ptr = d.ptr
    /\ c.relative_base = d.relative_base
    /\ c.input = d.input
    /\ c.output = d.output

\* the step leaves memory, ptr, relative_base and both streams as they were
Untouched ==
    /\ SameMem(memory', memory)
    /\ ptr' = ptr
    /\ relative_base' = relative_base
    /\ input' = input
    /\ output' = output

\* C1: with pause_at_output a run() returns after each output having put
\* out exactly that one value, and a run() that ends in Halt has put out
\* none; on a program of k Output instructions and a Halt, run n times
\* from ptr 0 with pause_at_output, call n <= k returns paused with the n-th
\* value put out and ptr after the n-th instruction, and call k+1 halts.
C1_PauseResume ==
    (pc = "idle" /\ h.runs > 0) =>
        /\ (pause_arg /\ ret = "paused") => Len(h.callout) = 1
        /\ (pause_arg /\ ret = "halted") => h.callout = <<>>
        /\ ~pause_arg => ret # "paused"
        /\ (h.plain /\ OutputsThenHalt(code) /\ h.start.ptr = 0) =>
              LET k == Len(code) \div 2
                  n == h.runs
              IN  IF n <= k
                  THEN /\ ret = "paused"
                       /\ ptr = 2 * n
                       /\ code[2 * n - 1] = 104 => h.callout = <<code[2 * n]>>
                  ELSE /\ ret = "halted"
                       /\ ptr = 2 * k

C1_Witness ==
    /\ code = <<104, 11, 104, 22, 104, 33, 99>>
    /\ pc = "idle"
    /\ h.plain
    /\ h.runs = 4
    /\ ret = "halted"
    /\ output = <<11, 22, 33>>

\* C2: when a program was run with pause_at_output, run() being called
\* again after each pause until it halted, with all input fed before the
\* first call, memory, ptr, relative_base and both streams are those one
\* run() without pause_at_output gives from the same starting Computer.
C2_NoProgressLost ==
    (pc = "idle" /\ h.plain /\ ret = "halted" /\ h.halts = 1
        /\ ~h.fedlate /\ ~h.gotlate) =>
        LET r == RunInvocation(h.start, 0, 0, FALSE, MaxCalls * MaxSteps)
        IN  r.ret = "halted" /\ SameMachine(r.c, Self)

C2_Witness ==
    /\ code = <<109, 2, 3, 1, 104, 7, 204, -1, 99>>
    /\ pc = "idle"
    /\ h.plain
    /\ h.runs = 3
    /\ ret = "halted"
    /\ output = <<7, 5>>

\* C3 (as claimed): a step that raises leaves memory, ptr, relative_base,
\* the input queue and the output stream as they were before the step.
C3_StepsAtomic == [][(pc = "run" /\ ret' \in Errors) => Untouched]_vars

\* C4 (as claimed): once a run() has raised, no step of a later run()
\* changes memory, ptr, relative_base or the streams.
C4_FaultedTerminal == [][(pc = "run" /\ h.faulted) => Untouched]_vars

\* C5 (as claimed): get_output returns the values in production order: the
\* values returned so far are the first values put out, in that order.
C5_DrainOrder == h.got = SubSeq(h.produced, 1, Len(h.got))

\* C6: a step at an Input instruction with an empty input queue raises
\* RuntimeError out of run() and leaves memory, ptr, relative_base and the
\* streams as they were.
C6_InputStarvation ==
    [][(pc = "run" /\ Decodes(Self) /\ CurOp = 3 /\ input = <<>>) =>
          (ret' = "RuntimeError" /\ pc' = "idle" /\ Untouched)]_vars

C6_Witness ==
    /\ pc = "idle"
    /\ ret = "RuntimeError"
    /\ Decodes(Self)
    /\ CurOp = 3
    /\ input = <<>>
    /\ h.runs = 1

\* C7 (as claimed): a step at a writing instruction whose destination
\* operand has mode digit 1 raises and stores nothing.
C7_InvalidWriteTarget ==
    [][(pc = "run" /\ Decodes(Self) /\ CurOp \in WriteOps
            /\ ModeDigit(Word, DestOperand(CurOp)) = IMMEDIATE_MODE) =>
          (ret' \in Errors /\ SameMem(memory', memory))]_vars

\* C8 (as claimed): after load_code, before any run(), memory holds the
\* program at 0..len-1 and ptr and relative_base are 0.
C8_LoadResets ==
    (code # <<>> /\ h.runs = 0) =>
        /\ \A i \in 1..Len(code) : Rd(memory, i - 1) = code[i]
        /\ ptr = 0
        /\ relative_base = 0

\* C8 (amended): load_code stores the program at 0..len-1 and leaves every
\* other cell, ptr, relative_base and the streams as they were; reset()
\* is what empties memory and puts ptr and relative_base back to 0.
C8_LoadCodeCopies ==
    [][/\ loads' = loads + 1 =>
            /\ \A i \in 1..Len(code') : Rd(memory', i - 1) = code'[i]
            /\ \A a \in DOMAIN memory' \ (0..(Len(code') - 1)) :
                  Rd(memory', a) = Rd(memory, a)
            /\ ptr' = ptr
            /\ relative_base' = relative_base
            /\ input' = input
            /\ output' = output
       /\ resets' = resets + 1 =>
            /\ DOMAIN memory' = {}
            /\ ptr' = 0
            /\ relative_base' = 0]_vars

C8_Witness ==
    /\ loads = 2
    /\ resets = 0
    /\ h.runs = 0
    /\ code = <<104, 8, 99>>
    /\ \A i \in 1..Len(code) : Rd(memory, i - 1) = code[i]
    /\ ptr = 4
    /\ relative_base = 2

\* the operator at ptr reads or writes through a negative address
NegativeAccess(c) ==
    LET w == Rd(c.memory, c.ptr)
        opc == w % 100
        args == ArgsOf(c, opc)
        modes == GetModes(w)
    IN  \/ \E i \in ReadOperands(c) :
              /\ At(modes, i) \in {POSITIONAL_MODE, RELATIVE_MODE}
              /\ Target(c, args, modes, i) < 0
        \/ /\ opc \in WriteOps
           /\ opc = 3 => c.input # <<>>
           /\ \/ WriteMode(opc, modes) = POSITIONAL_MODE /\ args[Len(args)] < 0
              \/ /\ WriteMode(opc, modes) = RELATIVE_MODE
                 /\ args[Len(args)] + c.relative_base < 0

\* C9 (as claimed): a step that resolves an operand to a negative address
\* raises, and nothing is read from or stored at that address.
C9_NegativeRejected ==
    [][(pc = "run" /\ Decodes(Self) /\ Modelled(Self) /\ NegativeAccess(Self)) =>
          (ret' \in Errors /\ \A a \in DOMAIN memory' : a >= 0 \/ a \in DOMAIN memory)]_vars

\* C10 (as claimed): for a non-negative word with a known opcode, the mode
\* get_param uses for operand i and the mode write uses for the
\* destination operand are the word's decimal mode digits.
C10_Decoding ==
    (pc = "run" /\ Decodes(Self)) =>
        /\ \A i \in 0..(OpLen(CurOp) - 2) : At(GetModes(Word), i) = ModeDigit(Word, i)
        /\ CurOp \in WriteOps =>
              WriteMode(CurOp, GetModes(Word)) = ModeDigit(Word, DestOperand(CurOp))

(***************************************************************************)
(* The instruction at ptr as the specification reads it: operand i, its    *)
(* mode from the word's decimal digits, the address it names and the value *)
(* a read of it yields.  A word of at most five digits is an opcode and    *)
(* one mode digit for each of up to three operands.                        *)
(***************************************************************************)
FiveDigits(w) == w >= 0 /\ w < 100000

Operand(i) == Rd(memory, ptr + 1 + i)

RefAddr(i) ==
    IF ModeDigit(Word, i) = RELATIVE_MODE
    THEN relative_base + Operand(i)
    ELSE Operand(i)

RefRead(i) ==
    IF ModeDigit(Word, i) = IMMEDIATE_MODE
    THEN Operand(i)
    ELSE Rd(memory, RefAddr(i))

\* the step stores val at address a and leaves every other cell as it was
Stores(a, val) ==
    /\ Rd(memory', a) = val
    /\ \A x \in (DOMAIN memory \cup DOMAIN memory') \ {a} :
          Rd(memory', x) = Rd(memory, x)

\* C11: a step that returns reads operand x as Memory[x] in positional
\* mode, as x in immediate mode and as Memory[relative_base + x] in relative
\* mode (0 where nothing was written), and stores at Memory[x] or
\* Memory[relative_base + x] and nowhere else, whatever the sign of
\* relative_base.
C11_RelativeAddressing ==
    [][(pc = "run" /\ Decodes(Self) /\ Modelled(Self) /\ FiveDigits(Word)
            /\ ret' \notin Errors) =>
          /\ CurOp = 1 => Stores(RefAddr(2), RefRead(0) + RefRead(1))
          /\ CurOp = 2 => Stores(RefAddr(2), RefRead(0) * RefRead(1))
          /\ CurOp = 3 => Stores(RefAddr(0), Head(input))
          /\ CurOp = 4 => output' = Append(output, RefRead(0))
          /\ CurOp = 7 => Stores(RefAddr(2), IF RefRead(0) < RefRead(1) THEN 1 ELSE 0)
          /\ CurOp = 8 => Stores(RefAddr(2), IF RefRead(0) = RefRead(1) THEN 1 ELSE 0)
          /\ CurOp = 9 => relative_base' = relative_base + RefRead(0)]_vars

C11_Witness ==
    /\ code = <<109, -2, 21101, 3, 4, 5, 204, 5, 99>>
    /\ ret = "halted"
    /\ relative_base = -2
    /\ Rd(memory, 3) = 7
    /\ output = <<7>>

(***************************************************************************)
(* The reference evaluation of a program of Add and Multiply instructions: *)
(* from address p, dest := read(0) + read(1) or dest := read(0) * read(1),  *)
(* one instruction after the other, until Halt.  ok is FALSE when the      *)
(* words met are not such instructions (another opcode, a word of more     *)
(* than five digits, a mode digit that is not valid for the operand, a     *)
(* negative address) or when fuel instructions do not reach Halt.          *)
(***************************************************************************)
RECURSIVE RefArith(_, _, _, _)
RefArith(m, p, base, fuel) ==
    LET w == Rd(m, p)
        x(i) == Rd(m, p + 1 + i)
        addr(i) == IF ModeDigit(w, i) = RELATIVE_MODE THEN base + x(i) ELSE x(i)
        read(i) == IF ModeDigit(w, i) = IMMEDIATE_MODE THEN x(i) ELSE Rd(m, addr(i))
        valid == /\ \A i \in {0, 1} :
                       /\ ModeDigit(w, i) \in {POSITIONAL_MODE, IMMEDIATE_MODE, RELATIVE_MODE}
                       /\ ModeDigit(w, i) # IMMEDIATE_MODE => addr(i) >= 0
                 /\ ModeDigit(w, 2) \in {POSITIONAL_MODE, RELATIVE_MODE}
                 /\ addr(2) >= 0
    IN  IF fuel = 0 \/ ~FiveDigits(w)
        THEN [ok |-> FALSE, m |-> m]
        ELSE IF w = 99
        THEN [ok |-> TRUE, m |-> m]
        ELSE IF w % 100 \in {1, 2} /\ valid
        THEN LET val == IF w % 100 = 1 THEN read(0) + read(1) ELSE read(0) * read(1)
             IN  RefArith([a \in DOMAIN m \cup {addr(2)} |->
                              IF a = addr(2) THEN val ELSE m[a]],
                          p + 4, base, fuel - 1)
        ELSE [ok |-> FALSE, m |-> m]

\* C12: when the reference evaluation of the loaded program reaches Halt,
\* the first run() ends in Halt with memory equal to the reference's; the
\* program 1002,4,3,4,33 ends with 99 at address 4 and 1101,5,5,0,99 with
\* 10 at address 0.
C12_AddMultiply ==
    LET ref == RefArith(h.start.memory, h.start.ptr, h.start.relative_base, MaxSteps)
    IN  (pc = "idle" /\ h.runs = 1 /\ ref.ok) =>
            /\ ret = "halted"
            /\ SameMem(memory, ref.m)
            /\ code = <<1002, 4, 3, 4, 33>> => Rd(memory, 4) = 99
            /\ code = <<1101, 5, 5, 0, 99>> => Rd(memory, 0) = 10

C12_Witness ==
    /\ code = <<1, 9, 10, 11, 22002, 11, 9, 12, 99, 3, 4>>
    /\ pc = "idle"
    /\ h.runs = 1
    /\ ret = "halted"
    /\ Rd(memory, 11) = 7
    /\ Rd(memory, 12) = 21

\* C13 (as claimed): after the self-describing program was run once to
\* Halt with no input, the values get_output returns are the program's 16
\* integers in the program's order: each value returned so far is the next
\* word of the program.
C13_SelfDescribing ==
    (code = Quine /\ h.runs = 1 /\ ~pause_arg /\ pc = "idle") =>
        /\ ret = "halted"
        /\ h.produced = Quine
        /\ h.got = SubSeq(Quine, 1, Len(h.got))

\* the part of C13 the code does give: the run halts with the 16 integers
\* in the output buffer, first to last
C13_BufferHoldsProgram ==
    (code = Quine /\ h.runs = 1 /\ ~pause_arg /\ pc = "idle") =>
        /\ ret = "halted"
        /\ h.produced = Quine

\* C14 (as claimed): the n-th Input instruction that returned stored the
\* n-th value given to read_input, whether the value was fed before the
\* first run() or between two run() calls.
C14_InputFifo == h.stored = SubSeq(h.fed, 1, Len(h.stored))

\* C15: a step at a word whose value mod 100 selects no operator (the 0 of
\* memory never written included) raises KeyError out of run() and leaves
\* ptr, relative_base, both streams and every stored value as they were.
C15_UnknownOpcode ==
    [][(pc = "run" /\ CurOp \notin {1, 2, 3, 4, 5, 6, 7, 8, 9, 99}) =>
          (ret' = "KeyError" /\ pc' = "idle" /\ Untouched)]_vars

C15_Witness ==
    /\ code = <<104, 7>>
    /\ pc = "idle"
    /\ ret = "KeyError"
    /\ ptr = 2
    /\ Word = 0
    /\ output = <<7>>

\* the instruction length 1+N of the specification's operator table
RefLen(opc) == IF opc \in {1, 2, 7, 8} THEN 4 ELSE IF opc \in {5, 6} THEN 3 ELSE 2

\* C16: after a step that neither halts nor raises, ptr is read(1) when the
\* instruction was Jump-If-True with read(0) # 0 or Jump-If-False with
\* read(0) = 0, and the old ptr plus the instruction length otherwise.
C16_PointerUpdate ==
    [][(pc = "run" /\ Decodes(Self) /\ Modelled(Self) /\ CurOp # 99
            /\ ret' \notin Errors) =>
          ptr' = IF \/ CurOp = 5 /\ RefRead(0) # 0
                    \/ CurOp = 6 /\ RefRead(0) = 0
                 THEN RefRead(1)
                 ELSE ptr + RefLen(CurOp)]_vars

C16_Witness ==
    /\ code = <<1106, 0, 4, 55, 1105, 0, 0, 1107, 1, 2, 0, 1108, 1, 2, 0, 99>>
    /\ ret = "halted"
    /\ steps = 5
    /\ ptr = 15
    /\ Rd(memory, 0) = 0

\* C17: the step that executes Halt leaves ptr at the Halt instruction, and
\* once a run() has ended in Halt every step of a later run() (default noun
\* and verb) ends that run() in Halt again, leaving memory, ptr,
\* relative_base and both streams as they were.
C17_HaltedTerminal ==
    [][/\ (pc = "run" /\ Decodes(Self) /\ CurOp = 99) =>
              (ret' = "halted" /\ ptr' = ptr)
       /\ (pc = "run" /\ h.halts >= 1) =>
              (ret' = "halted" /\ pc' = "idle" /\ Untouched)]_vars

C17_Witness ==
    /\ code = <<109, 2, 3, 1, 104, 7, 204, -1, 99>>
    /\ pc = "idle"
    /\ ret = "halted"
    /\ h.halts = 2
    /\ ptr = 8
    /\ output = <<7, 5>>

\* C18: when run() has returned without raising, running is False exactly
\* when it ended by executing Halt, and True when it paused on an output.
C18_RunningFlag ==
    (pc = "idle" /\ ret \in {"paused", "halted"}) =>
        /\ running = FALSE <=> ret = "halted"
        /\ ret = "halted" => (Decodes(Self) /\ CurOp = 99)
        /\ ret = "paused" => (pause_arg /\ last_operation_output)

C18_Witness ==
    /\ code = <<104, 11, 104, 22, 104, 33, 99>>
    /\ pc = "idle"
    /\ ret = "paused"
    /\ running
    /\ h.halts = 0
    /\ h.runs = 2

\* C19: the entry of every run() invocation, first or resumed, stores noun
\* at address 1 exactly when noun # 0 and verb at address 2 exactly when
\* verb # 0, before any instruction is decoded; every other cell, and the
\* cell of a zero noun or verb, keeps its value, as do ptr, relative_base
\* and the streams.
C19_NounVerbPatch ==
    [][calls' = calls + 1 =>
          /\ Rd(memory', 1) = IF h'.noun # 0 THEN h'.noun ELSE Rd(memory, 1)
          /\ Rd(memory', 2) = IF h'.verb # 0 THEN h'.verb ELSE Rd(memory, 2)
          /\ \A a \in (DOMAIN memory \cup DOMAIN memory') \ {1, 2} :
                Rd(memory', a) = Rd(memory, a)
          /\ ptr' = ptr /\ relative_base' = relative_base
          /\ input' = input /\ output' = output
          /\ pc' = "run" /\ steps' = 0]_vars

C19_Witness ==
    /\ code = <<104, 11, 104, 22, 104, 33, 99>>
    /\ pc = "run"
    /\ steps = 0
    /\ h.runs = 2
    /\ h.noun = 12
    /\ h.verb = 0
    /\ ptr = 2
    /\ Rd(memory, 1) = 12
    /\ Rd(memory, 2) = 104

\* C20 (as claimed): after any sequence of '+', '-', ',', '>' and '<' every
\* cell of the tape holds a value in 0 .. cell_size - 1.
C20_CellRange == \A a \in DOMAIN registers : registers[a] \in 0..(cell_size - 1)

\* the part of C20 the code does give: '+' takes the current cell to its
\* value plus one modulo cell_size, so cell_size - 1 to 0, and '-' to its
\* value minus one modulo cell_size, so 0 to cell_size - 1
C20_WrapAround ==
    [][chars' = chars =>
          /\ (last_op' = "+" /\ Rd(registers, data_ptr) = cell_size - 1) =>
                 Rd(registers', data_ptr) = 0
          /\ (last_op' = "-" /\ Rd(registers, data_ptr) = 0) =>
                 Rd(registers', data_ptr) = cell_size - 1
          /\ (last_op' \in {"+", "-"} /\ C20_CellRange) => C20_CellRange']_vars

=============================================================================
